---- MODULE Spec2Model ----
(***************************************************************************)
(* s3-manifest: paginated listing of a bucket, accumulation of the listed  *)
(* objects into five Arrow column builders, batch writes to a Parquet      *)
(* writer, and the optional upload of the finished file (src/main.rs).     *)
(*                                                                         *)
(* Strings that the program takes apart (keys, prefixes, delimiters,       *)
(* timestamps) are sequences of one-character strings.  Option<T> is a     *)
(* sequence of length 0 (None) or 1 (Some).                                *)
(***************************************************************************)
EXTENDS Integers, Sequences, FiniteSets, TLC

VARIABLES
    pc,                     \* control point of generate_manifest
    error,                  \* None, or Some(kind) once a `?` has returned Err
    bucket_name,            \* source bucket (argument)
    prefix,                 \* Option<String> (argument)
    delimiter,              \* delimiter (argument)
    output_bucket,          \* Option<String>: Some = remote output
    output_key,             \* destination key (argument)
    temp_file,              \* "none" | "exists" | "deleted"
    writer,                 \* "none" | "open" | "closed"
    sink,                   \* batches handed to writer.write, in order
    close_calls,            \* number of writer.close() calls
    continuation_token,     \* Option<String>
    bucket_builder, key_builder, file_name_builder,
    size_builder, last_modified_builder,
    total_objects,          \* accepted-object counter
    request,                \* the ListObjectsV2Request of this iteration
    list_attempts,          \* failed attempts of the Retry::spawn in progress (list)
    result,                 \* page metadata of the last successful list call
    listed,                 \* number of descriptors the backend has returned
    pages,                  \* number of successful pages
    history,                \* number of descriptors of each successful page, in order
    contents,               \* upload_to_s3: bytes read from the temp file
    puts,                   \* number of put_object requests sent
    last_put,               \* the PutObjectRequest sent last, if any
    object                  \* the descriptor last given to add_object_to_builders

vars == <<pc, error, bucket_name, prefix, delimiter, output_bucket, output_key,
          temp_file, writer, sink, close_calls, continuation_token,
          bucket_builder, key_builder, file_name_builder, size_builder,
          last_modified_builder, total_objects, request, list_attempts,
          result, listed, pages, history, contents, puts, last_put,
          object>>

----------------------------------------------------------------------------
(* Option<T> *)

None == <<>>
Some(x) == <<x>>
is_some(o) == o # <<>>
unwrap_or(o, d) == IF o = <<>> THEN d ELSE o[1]

----------------------------------------------------------------------------
(* Bounds of the model *)

MaxPages == 2        \* successful listing pages per run
MaxAppend == 2       \* appends per run of the normalisation specification
MaxKeyLen == 2       \* length of the generated keys

----------------------------------------------------------------------------
(* Program constants *)

FlushThreshold == 1000   \* key_builder.len() >= 1000
MaxKeysPerPage == 1000   \* max_keys: Some(1000)

\* ExponentialBackoff::from_millis(100).map(jitter).take(3): the strategy
\* yields three delays, and Retry::spawn makes one more attempt per delay.
RetryTake == 3

----------------------------------------------------------------------------
(* str::starts_with and str::rsplit *)

starts_with(s, p) ==
    /\ Len(p) <= Len(s)
    /\ SubSeq(s, 1, Len(p)) = p

\* The reverse searcher: the match of `pat` in `s` that starts at the greatest
\* offset <= i (0-based), as Some(<<start, end>>), or None.
RECURSIVE next_match_back(_, _, _)
next_match_back(s, pat, i) ==
    IF i < 0 THEN None
    ELSE IF SubSeq(s, i + 1, i + Len(pat)) = pat
         THEN Some(<<i, i + Len(pat)>>)
         ELSE next_match_back(s, pat, i - 1)

\* The first item of s.rsplit(pat): the text after the last match, or all of
\* `s` when there is no match.
rsplit_next(s, pat) ==
    LET m == next_match_back(s, pat, Len(s) - Len(pat))
    IN  IF is_some(m) THEN Some(SubSeq(s, m[1][2] + 1, Len(s)))
        ELSE Some(s)

\* A split at the first match instead of the last.
RECURSIVE next_match_fwd(_, _, _)
next_match_fwd(s, pat, i) ==
    IF i + Len(pat) > Len(s) THEN None
    ELSE IF SubSeq(s, i + 1, i + Len(pat)) = pat
         THEN Some(<<i, i + Len(pat)>>)
         ELSE next_match_fwd(s, pat, i + 1)

file_name_first_match(key, delim) ==
    LET m == next_match_fwd(key, delim, 0)
    IN  IF is_some(m) THEN SubSeq(key, m[1][2] + 1, Len(key)) ELSE key

\* key.rsplit(delimiter).next().unwrap_or(key)
file_name_of(key, delim) == unwrap_or(rsplit_next(key, delim), key)

----------------------------------------------------------------------------
(* DateTime::parse_from_rfc3339 and timestamp_millis *)

Digits == <<"0", "1", "2", "3", "4", "5", "6", "7", "8", "9">>
is_digit(c) == \E d \in 1..10 : Digits[d] = c
digit(c) == (CHOOSE d \in 1..10 : Digits[d] = c) - 1
all_digits(s, i, j) == \A k \in i..j : is_digit(s[k])
num2(s, i) == digit(s[i]) * 10 + digit(s[i + 1])
num4(s, i) == num2(s, i) * 100 + num2(s, i + 2)

is_leap(y) == (y % 4 = 0 /\ y % 100 # 0) \/ y % 400 = 0
days_in_month(y, m) ==
    IF m = 2 THEN (IF is_leap(y) THEN 29 ELSE 28)
    ELSE IF m \in {4, 6, 9, 11} THEN 30 ELSE 31

\* Days from 1970-01-01 to the civil date y-m-d.
days_from_civil(y, m, d) ==
    LET yy  == IF m <= 2 THEN y - 1 ELSE y
        era == yy \div 400
        yoe == yy - era * 400
        mp  == IF m > 2 THEN m - 3 ELSE m + 9
        doy == (153 * mp + 2) \div 5 + d - 1
        doe == yoe * 365 + yoe \div 4 - yoe \div 100 + doy
    IN  era * 146097 + doe - 719468

\* Index of the last digit of the run of digits that starts at i (i - 1 when
\* s[i] is no digit).
RECURSIVE digits_end(_, _)
digits_end(s, i) ==
    IF i <= Len(s) /\ is_digit(s[i]) THEN digits_end(s, i + 1) ELSE i - 1

\* Milliseconds of a fraction: its first three digits, zero padded.
frac_millis(s, i, j) ==
    LET d(k) == IF k <= j THEN digit(s[k]) ELSE 0
    IN  d(i) * 100 + d(i + 1) * 10 + d(i + 2)

\* The sign of a negative offset: "-" or the character U+2212 MINUS SIGN,
\* which is written "U+2212" as an element of a string.
MinusSigns == {"-", "U+2212"}

\* date-time = YYYY-MM-DD ("T" | "t" | " ") HH:MM:SS [ "." 1*DIGIT ]
\*             ( "Z" | "z" | sign HH:MM )
\* Some([days, secs, offset, millis]) or None when `s` is not of that form.
\* A seconds field of 60 (leap second) is second 59 with 1000 ms more.
parse_from_rfc3339(s) ==
    IF ~ ( /\ Len(s) >= 20
           /\ all_digits(s, 1, 4)   /\ s[5] = "-"
           /\ all_digits(s, 6, 7)   /\ s[8] = "-"
           /\ all_digits(s, 9, 10)  /\ s[11] \in {"T", "t", " "}
           /\ all_digits(s, 12, 13) /\ s[14] = ":"
           /\ all_digits(s, 15, 16) /\ s[17] = ":"
           /\ all_digits(s, 18, 19) )
    THEN None
    ELSE
    LET y  == num4(s, 1)
        mo == num2(s, 6)
        d  == num2(s, 9)
        h  == num2(s, 12)
        mi == num2(s, 15)
        se == num2(s, 18)
        fe == IF s[20] = "." THEN digits_end(s, 21) ELSE 19
        z  == fe + 1          \* where the offset starts
        fracOk == s[20] = "." => fe >= 21
        dateOk == /\ mo \in 1..12 /\ d >= 1 /\ d <= days_in_month(y, mo)
                  /\ h <= 23 /\ mi <= 59 /\ se <= 60
        isZ   == z = Len(s) /\ s[z] \in {"Z", "z"}
        isOff == /\ z + 5 = Len(s) /\ s[z] \in {"+"} \cup MinusSigns
                 /\ all_digits(s, z + 1, z + 2) /\ s[z + 3] = ":"
                 /\ all_digits(s, z + 4, z + 5)
                 /\ num2(s, z + 1) <= 23 /\ num2(s, z + 4) <= 59
        off   == IF isZ THEN 0
                 ELSE (IF s[z] \in MinusSigns THEN -1 ELSE 1)
                      * (num2(s, z + 1) * 3600 + num2(s, z + 4) * 60)
    IN  IF fracOk /\ dateOk /\ z <= Len(s) /\ (isZ \/ isOff)
        THEN Some([days   |-> days_from_civil(y, mo, d),
                   secs   |-> h * 3600 + mi * 60 + (IF se = 60 THEN 59 ELSE se),
                   offset |-> off,
                   millis |-> (IF se = 60 THEN 1000 ELSE 0)
                              + (IF s[20] = "." THEN frac_millis(s, 21, fe) ELSE 0)])
        ELSE None

\* dt.with_timezone(&Utc).timestamp_millis()
timestamp_millis(dt) ==
    (dt.days * 86400 + dt.secs - dt.offset) * 1000 + dt.millis

\* object.last_modified.as_ref().and_then(|s| parse(s).ok())
\*     .map(|dt| ...timestamp_millis()).unwrap_or(0)
last_modified_of(lm) ==
    LET parsed == IF is_some(lm) THEN parse_from_rfc3339(lm[1]) ELSE None
        mapped == IF is_some(parsed) THEN Some(timestamp_millis(parsed[1])) ELSE None
    IN  unwrap_or(mapped, 0)

\* `x as u64` of an i64 (the value modulo 2^64).  Object sizes are drawn from
\* the non-negative i64 values, where the cast keeps the value.
as_u64(x) == IF x >= 0 THEN x ELSE x + 2^64

----------------------------------------------------------------------------
(* The five column builders *)

EmptyBuilders ==
    [bucket |-> <<>>, key |-> <<>>, file_name |-> <<>>, size |-> <<>>,
     last_modified |-> <<>>]

Builders ==
    [bucket |-> bucket_builder, key |-> key_builder,
     file_name |-> file_name_builder, size |-> size_builder,
     last_modified |-> last_modified_builder]

SetBuilders(b) ==
    /\ bucket_builder' = b.bucket
    /\ key_builder' = b.key
    /\ file_name_builder' = b.file_name
    /\ size_builder' = b.size
    /\ last_modified_builder' = b.last_modified

builders_vars ==
    <<bucket_builder, key_builder, file_name_builder, size_builder,
      last_modified_builder>>

\* The builders `a` followed by the rows of `b`.
Concat(a, b) ==
    [bucket |-> a.bucket \o b.bucket, key |-> a.key \o b.key,
     file_name |-> a.file_name \o b.file_name, size |-> a.size \o b.size,
     last_modified |-> a.last_modified \o b.last_modified]

\* A normalisation that defaults a missing size to 1 and a bad timestamp
\* to -1.
add_object_wrong_defaults(bucket, obj, delim, b) ==
    LET key == unwrap_or(obj.key, <<>>)
    IN  [ok |-> TRUE,
         b  |-> [bucket        |-> Append(b.bucket, bucket),
                 key           |-> Append(b.key, key),
                 file_name     |-> Append(b.file_name, file_name_of(key, delim)),
                 size          |-> Append(b.size, as_u64(unwrap_or(obj.size, 1))),
                 last_modified |-> Append(b.last_modified,
                     IF is_some(obj.last_modified)
                        /\ is_some(parse_from_rfc3339(obj.last_modified[1]))
                     THEN last_modified_of(obj.last_modified) ELSE -1)]]

\* A normalisation that appends to four of the five builders.
add_object_skips_column(bucket, obj, delim, b) ==
    LET key == unwrap_or(obj.key, <<>>)
    IN  [ok |-> TRUE,
         b  |-> [bucket        |-> Append(b.bucket, bucket),
                 key           |-> Append(b.key, key),
                 file_name     |-> Append(b.file_name, file_name_of(key, delim)),
                 size          |-> Append(b.size, as_u64(unwrap_or(obj.size, 0))),
                 last_modified |-> b.last_modified]]

\* add_object_to_builders: one value appended to each builder; always Ok(()).
add_object_to_builders(bucket, obj, delim, b) ==
    LET key == unwrap_or(obj.key, <<>>)
        file_name == file_name_of(key, delim)
        last_modified == last_modified_of(obj.last_modified)
    IN  [ok |-> TRUE,
         b  |-> [bucket        |-> Append(b.bucket, bucket),
                 key           |-> Append(b.key, key),
                 file_name     |-> Append(b.file_name, file_name),
                 size          |-> Append(b.size, as_u64(unwrap_or(obj.size, 0))),
                 last_modified |-> Append(b.last_modified, last_modified)]]

----------------------------------------------------------------------------
(* Inputs: keys, delimiters, timestamps and object descriptors *)

Alphabet == {"a", "/"}

RECURSIVE StringsUpTo(_)
StringsUpTo(n) ==
    IF n = 0 THEN {<<>>}
    ELSE LET shorter == StringsUpTo(n - 1)
         IN  shorter \cup {Append(s, c) : s \in {t \in shorter : Len(t) = n - 1},
                                          c \in Alphabet}

KeyExample1 == <<"a", "/", "b", "/", "c", ".", "t", "x", "t">>
KeyExample2 == <<"r", "e", "a", "d", "m", "e", ".", "m", "d">>
DelimSlash == <<"/">>

GeneratedKeys ==
    StringsUpTo(MaxKeyLen)
    \cup {KeyExample1, KeyExample2, <<"a", "a", "a">>, <<"/", "a", "/", "/", "/">>}
DelimiterPool == {DelimSlash, <<>>, <<"/", "/">>, <<"a", "a">>}

TsEpoch      == <<"1", "9", "7", "0", "-", "0", "1", "-", "0", "1", "T", "0", "0", ":", "0", "0", ":", "0", "0", "Z">>
TsDayTwo     == <<"1", "9", "7", "0", "-", "0", "1", "-", "0", "2", "T", "0", "3", ":", "0", "4", ":", "0", "5", "Z">>
TsOffset     == <<"1", "9", "7", "0", "-", "0", "1", "-", "0", "1", "T", "0", "1", ":", "0", "0", ":", "0", "0", "+", "0", "1", ":", "0", "0">>
TsFraction   == <<"1", "9", "7", "0", "-", "0", "1", "-", "0", "1", "T", "0", "0", ":", "0", "0", ":", "0", "1", ".", "5", "0", "0", "Z">>
TsWest       == <<"1", "9", "7", "0", "-", "0", "1", "-", "0", "3", "T", "0", "0", ":", "0", "0", ":", "0", "0", "-", "0", "2", ":", "0", "0">>
TsWord       == <<"y", "e", "s", "t", "e", "r", "d", "a", "y">>
TsBadMonth   == <<"1", "9", "7", "0", "-", "1", "3", "-", "0", "1", "T", "0", "0", ":", "0", "0", ":", "0", "0", "Z">>
TsDateOnly   == <<"1", "9", "7", "0", "-", "0", "1", "-", "0", "1">>
TsNoOffset   == <<"1", "9", "7", "0", "-", "0", "1", "-", "0", "1", "T", "0", "0", ":", "0", "0", ":", "0", "0">>
TsBadDay     == <<"1", "9", "7", "0", "-", "0", "2", "-", "3", "0", "T", "0", "0", ":", "0", "0", ":", "0", "0", "Z">>
TsLeapSecond == <<"1", "9", "7", "0", "-", "0", "1", "-", "0", "1", "T", "0", "0", ":", "0", "0", ":", "6", "0", "Z">>
TsLeapFraction == <<"1", "9", "7", "0", "-", "0", "1", "-", "0", "1", "T", "2", "3", ":", "5", "9", ":", "6", "0", ".", "2", "5", "0", "Z">>
TsSpace      == <<"1", "9", "7", "0", "-", "0", "1", "-", "0", "2", " ", "0", "0", ":", "0", "0", ":", "0", "0", "Z">>
TsMinusSign  == <<"1", "9", "7", "0", "-", "0", "1", "-", "0", "1", "T", "0", "0", ":", "0", "0", ":", "0", "0", "U+2212", "0", "1", ":", "0", "0">>

WellFormedTimestamps ==
    {TsEpoch, TsDayTwo, TsOffset, TsFraction, TsWest, TsLeapSecond,
     TsLeapFraction, TsSpace, TsMinusSign}
MalformedTimestamps == {<<>>, TsWord, TsBadMonth, TsDateOnly, TsNoOffset, TsBadDay}

Descriptor(k, sz, lm) == [key |-> k, size |-> sz, last_modified |-> lm]

\* Descriptors given to the normalisation specification.
NormObjects ==
    {Descriptor(Some(k), Some(5), Some(TsDayTwo)) : k \in GeneratedKeys}
    \cup {Descriptor(None, None, None)}
    \cup {Descriptor(Some(KeyExample1), Some(10), Some(t)) :
              t \in WellFormedTimestamps \cup MalformedTimestamps}
    \cup {Descriptor(Some(KeyExample2), sz, None) : sz \in {None, Some(0), Some(20)}}

\* The i-th descriptor a listing returns (i = 1, 2, ...).  The first
\* max_keys descriptors have keys under the prefix "l/"; after them two
\* descriptors in five are outside it, one with another key and one without a
\* key.  One descriptor in seven has no size; timestamps are absent, well
\* formed and malformed in turn.
PipelinePrefix == <<"l", "/">>
\* A prefix that none of the first max_keys descriptors lies under.
SparsePrefix == <<"x", "/">>
PipelineKeys ==
    << Some(<<"l", "/", "a">>), Some(<<"l", "/", "d", "/", "b">>),
       Some(<<"l", "/", "c">>) >>
PipelineStamps == << None, Some(TsDayTwo), Some(TsWord) >>

Obj(i) ==
    Descriptor(IF i > MaxKeysPerPage /\ i % 5 = 2 THEN Some(<<"x", "/", "a">>)
               ELSE IF i > MaxKeysPerPage /\ i % 5 = 4 THEN None
               ELSE PipelineKeys[(i % 3) + 1],
               IF i % 7 = 0 THEN None ELSE Some(i),
               PipelineStamps[(i % 3) + 1])

\* Sizes of the pages the backend returns (at most max_keys).
PageSizes == {0, MaxKeysPerPage - 1, MaxKeysPerPage}

----------------------------------------------------------------------------
(* generate_manifest: helpers *)

NoResult == [next_continuation_token |-> None, is_truncated |-> None]

\* The prefix check of the listing loop: `continue` unless this holds.
accepts_all(pfx, obj) == TRUE

accepts(pfx, obj) ==
    is_some(pfx) => starts_with(unwrap_or(obj.key, <<>>), pfx[1])

\* add_object_to_builders on empty builders for the i-th descriptor.  The
\* rows for the bucket and delimiter of Init are computed once and looked up.
MemoBucket == "b"
NormMemo ==
    SubSeq([i \in 1..(MaxPages * MaxKeysPerPage) |->
               add_object_to_builders(MemoBucket, Obj(i), DelimSlash, EmptyBuilders)],
           1, MaxPages * MaxKeysPerPage)

add_object(bucket, i, delim) ==
    IF bucket = MemoBucket /\ delim = DelimSlash /\ i <= Len(NormMemo)
    THEN NormMemo[i]
    ELSE add_object_to_builders(bucket, Obj(i), delim, EmptyBuilders)

\* for object in objects { ... } over the descriptors Obj(lo) .. Obj(hi): the
\* rows appended and the increments of total_objects.  Appending is
\* associative, so the range is folded by halves.
RECURSIVE for_objects(_, _)
for_objects(lo, hi) ==
    IF lo > hi THEN [ok |-> TRUE, b |-> EmptyBuilders, count |-> 0]
    ELSE IF lo = hi
    THEN IF accepts(prefix, Obj(lo))
         THEN LET r == add_object(bucket_name, lo, delimiter)
              IN  [ok |-> r.ok, b |-> r.b, count |-> 1]
         ELSE [ok |-> TRUE, b |-> EmptyBuilders, count |-> 0]
    ELSE LET mid   == (lo + hi) \div 2
             left  == for_objects(lo, mid)
             right == for_objects(mid + 1, hi)
         IN  [ok |-> left.ok /\ right.ok, b |-> Concat(left.b, right.b),
              count |-> left.count + right.count]

\* Dropping the NamedTempFile removes the file.
drop_keeps_file(t) == t
drop_temp_file(t) == IF t = "exists" THEN "deleted" ELSE t

\* A `?` that returns Err from generate_manifest (or from upload_to_s3, which
\* owns the temporary file by then): every local is dropped.
Fail(kind) ==
    /\ pc' = "failed"
    /\ error' = Some(kind)
    /\ temp_file' = drop_temp_file(temp_file)

\* Retry::spawn after a failed attempt: the strategy's next delay, if any.
\* `failed` is the number of failed attempts before this one.
strategy_next(failed) ==
    IF failed < RetryTake THEN Some("delay") ELSE None

config_vars == <<bucket_name, prefix, delimiter, output_bucket, output_key>>
upload_vars == <<contents, puts, last_put>>

----------------------------------------------------------------------------
(* generate_manifest: lines 134-185 *)

Init ==
    /\ pc = "start"
    /\ error = None
    /\ bucket_name = MemoBucket
    /\ prefix \in {None, Some(PipelinePrefix), Some(SparsePrefix)}
    /\ delimiter = DelimSlash
    /\ \E out \in {<<None, "manifest.parquet">>, <<Some("dest"), "m/manifest.parquet">>} :
           output_bucket = out[1] /\ output_key = out[2]
    /\ temp_file = "none"
    /\ writer = "none"
    /\ sink = <<>>
    /\ close_calls = 0
    /\ continuation_token = None
    /\ bucket_builder = <<>>
    /\ key_builder = <<>>
    /\ file_name_builder = <<>>
    /\ size_builder = <<>>
    /\ last_modified_builder = <<>>
    /\ total_objects = 0
    /\ request = None
    /\ list_attempts = 0
    /\ result = NoResult
    /\ listed = 0
    /\ pages = 0
    /\ history = <<>>
    /\ contents = None
    /\ puts = 0
    /\ last_put = None
    /\ object = None

\* The source client, the output file (a NamedTempFile when the output is
\* remote) and the ArrowWriter are created.
StartOk ==
    /\ pc = "start"
    /\ pc' = "loop"
    /\ temp_file' = IF is_some(output_bucket) THEN "exists" ELSE "none"
    /\ writer' = "open"
    /\ UNCHANGED <<error, config_vars, sink, close_calls, continuation_token,
                   builders_vars, total_objects, request, list_attempts, result,
                   listed, pages, history, upload_vars, object>>

\* One of the `?` of lines 134-164 returns Err.
StartErr ==
    /\ pc = "start"
    /\ \E step \in {"source_client", "create_file", "reopen", "writer_new"} :
          /\ step = "reopen" => is_some(output_bucket)
          /\ pc' = "failed"
          /\ error' = Some(step)
          /\ temp_file' = IF is_some(output_bucket) /\ step \in {"reopen", "writer_new"}
                          THEN drop_temp_file("exists") ELSE "none"
    /\ UNCHANGED <<config_vars, writer, sink, close_calls, continuation_token,
                   builders_vars, total_objects, request, list_attempts, result,
                   listed, pages, history, upload_vars, object>>

----------------------------------------------------------------------------
(* The listing loop: lines 187-257 *)

\* let request = ListObjectsV2Request { ... } and retry_strategy.clone()
BuildRequest ==
    /\ pc = "loop"
    /\ request' = Some([bucket |-> bucket_name, prefix |-> prefix,
                        continuation_token |-> continuation_token,
                        max_keys |-> Some(MaxKeysPerPage)])
    /\ list_attempts' = 0
    /\ pc' = "list"
    /\ UNCHANGED <<error, config_vars, temp_file, writer, sink, close_calls,
                   continuation_token, builders_vars, total_objects, result,
                   listed, pages, history, upload_vars, object>>

\* A listing error that is recorded but leaves the loop instead of returning.
ListAttemptErr_swallowed ==
    /\ pc = "list"
    /\ list_attempts' = list_attempts + 1
    /\ IF is_some(strategy_next(list_attempts))
       THEN UNCHANGED <<pc, error>>
       ELSE pc' = "final_flush" /\ error' = Some("list")
    /\ UNCHANGED <<config_vars, temp_file, writer, sink, close_calls,
                   continuation_token, builders_vars, total_objects, request,
                   result, listed, pages, history, upload_vars, object>>

\* A failed attempt that leaves the first row of a partial page in the builders.
ListAttemptErr_partial_page ==
    /\ pc = "list"
    /\ list_attempts' = list_attempts + 1
    /\ SetBuilders(Concat(Builders, add_object(bucket_name, listed + 1, delimiter).b))
    /\ IF is_some(strategy_next(list_attempts))
       THEN UNCHANGED <<pc, error, temp_file>>
       ELSE Fail("list")
    /\ UNCHANGED <<config_vars, writer, sink, close_calls, continuation_token,
                   total_objects, request, result, listed, pages, history,
                   upload_vars, object>>

\* An attempt of list_objects_v2 fails: retried while the strategy has a
\* delay left, otherwise `.await?` returns the error.
ListAttemptErr ==
    /\ pc = "list"
    /\ list_attempts' = list_attempts + 1
    /\ IF is_some(strategy_next(list_attempts))
       THEN UNCHANGED <<pc, error, temp_file>>
       ELSE Fail("list")
    /\ UNCHANGED <<config_vars, writer, sink, close_calls, continuation_token,
                   builders_vars, total_objects, request, result, listed, pages, history,
                   upload_vars, object>>

\* An attempt of list_objects_v2 succeeds, and the objects of the page are
\* filtered and appended (lines 208-234).
ListAttemptOk ==
    /\ pc = "list"
    /\ pages < MaxPages
    /\ \E c \in {None} \cup {Some(n) : n \in PageSizes} :
          LET n   == unwrap_or(c, 0)
              acc == for_objects(listed + 1, listed + n)
          IN  /\ listed' = listed + n
              /\ history' = Append(history, n)
              /\ IF acc.ok
                 THEN /\ SetBuilders(Concat(Builders, acc.b))
                      /\ total_objects' = total_objects + acc.count
                      /\ pc' = "flush"
                      /\ UNCHANGED <<error, temp_file>>
                 ELSE /\ Fail("normalize")
                      /\ UNCHANGED <<builders_vars, total_objects>>
    /\ \E trunc \in {None, Some(FALSE), Some(TRUE)},
          tok \in {None, Some(<<"token", pages + 1>>)} :
          /\ trunc = Some(TRUE) => pages + 1 < MaxPages
          /\ result' = [next_continuation_token |-> tok, is_truncated |-> trunc]
    /\ list_attempts' = 0
    /\ pages' = pages + 1
    /\ UNCHANGED <<config_vars, writer, sink, close_calls, continuation_token,
                   request, upload_vars, object>>

\* write_batch: the builders are finished into a batch (which empties them),
\* the batch is written, and the builders are finished again.
write_batch_keeps_rows(b, write_ok) ==
    [ok |-> write_ok, batch |-> b, b |-> b]

write_batch(b, write_ok) ==
    LET batch == b
        lens  == {Len(batch.bucket), Len(batch.key), Len(batch.file_name),
                  Len(batch.size), Len(batch.last_modified)}
    IN  [ok    |-> Cardinality(lens) = 1 /\ write_ok,
         batch |-> batch,
         b     |-> EmptyBuilders]

\* The first `n` rows of the builders `b`, and the rows after them.
Take(b, n) ==
    [bucket |-> SubSeq(b.bucket, 1, n), key |-> SubSeq(b.key, 1, n),
     file_name |-> SubSeq(b.file_name, 1, n), size |-> SubSeq(b.size, 1, n),
     last_modified |-> SubSeq(b.last_modified, 1, n)]
Drop(b, n) ==
    [bucket |-> SubSeq(b.bucket, n + 1, Len(b.bucket)),
     key |-> SubSeq(b.key, n + 1, Len(b.key)),
     file_name |-> SubSeq(b.file_name, n + 1, Len(b.file_name)),
     size |-> SubSeq(b.size, n + 1, Len(b.size)),
     last_modified |-> SubSeq(b.last_modified, n + 1, Len(b.last_modified))]

\* A call of write_batch that writes at most the first 1000 rows and keeps
\* the others in the builders.
WriteBatch_first_thousand(write_ok, next) ==
    LET n == IF Len(key_builder) < FlushThreshold THEN Len(key_builder)
             ELSE FlushThreshold
    IN  /\ SetBuilders(Drop(Builders, n))
        /\ IF write_ok
           THEN /\ sink' = Append(sink, Take(Builders, n))
                /\ pc' = next
                /\ UNCHANGED <<error, temp_file>>
           ELSE /\ Fail("write")
                /\ UNCHANGED sink

\* A call of write_batch whose writer.write succeeds or fails.
WriteBatch(write_ok, next) ==
    LET r == write_batch(Builders, write_ok)
    IN  /\ SetBuilders(r.b)
        /\ IF r.ok
           THEN /\ sink' = Append(sink, r.batch)
                /\ pc' = next
                /\ UNCHANGED <<error, temp_file>>
           ELSE /\ Fail("write")
                /\ UNCHANGED sink

flush_frame ==
    <<config_vars, writer, close_calls, continuation_token, total_objects,
      request, list_attempts, result, listed, pages, history, upload_vars, object>>

\* A threshold test with `>` in place of `>=`.
FlushSkip_above_threshold ==
    /\ pc = "flush"
    /\ ~ (Len(key_builder) > FlushThreshold)
    /\ pc' = "advance"
    /\ UNCHANGED <<error, temp_file, sink, builders_vars, flush_frame>>

\* if key_builder.len() >= 1000 { write_batch(...)?; }
FlushSkip ==
    /\ pc = "flush"
    /\ ~ (Len(key_builder) >= FlushThreshold)
    /\ pc' = "advance"
    /\ UNCHANGED <<error, temp_file, sink, builders_vars, flush_frame>>

\* A flush that is started but not waited for before the loop goes on.
FlushOk_not_awaited ==
    /\ pc = "flush"
    /\ Len(key_builder) >= FlushThreshold
    /\ pc' = "advance"
    /\ UNCHANGED <<error, temp_file, sink, builders_vars, flush_frame>>

FlushOk ==
    /\ pc = "flush"
    /\ Len(key_builder) >= FlushThreshold
    /\ WriteBatch(TRUE, "advance")
    /\ UNCHANGED flush_frame

FlushErr ==
    /\ pc = "flush"
    /\ Len(key_builder) >= FlushThreshold
    /\ WriteBatch(FALSE, "advance")
    /\ UNCHANGED flush_frame

\* An iteration that ends without taking over the token of its page.
Advance_keeps_token ==
    /\ pc = "advance"
    /\ pc' = IF ~ unwrap_or(result.is_truncated, FALSE) THEN "final_flush"
             ELSE "loop"
    /\ result' = NoResult
    /\ UNCHANGED <<error, config_vars, temp_file, writer, sink, close_calls,
                   continuation_token, builders_vars, total_objects, request,
                   list_attempts, listed, pages, history, upload_vars, object>>

\* An iteration that never breaks out of the loop.
Advance_ignores_flag ==
    /\ pc = "advance"
    /\ continuation_token' = result.next_continuation_token
    /\ pc' = "loop"
    /\ result' = NoResult
    /\ UNCHANGED <<error, config_vars, temp_file, writer, sink, close_calls,
                   builders_vars, total_objects, request, list_attempts, listed,
                   pages, history, upload_vars, object>>

\* continuation_token = result.next_continuation_token;
\* if !result.is_truncated.unwrap_or(false) { break; }
Advance ==
    /\ pc = "advance"
    /\ continuation_token' = result.next_continuation_token
    /\ pc' = IF ~ unwrap_or(result.is_truncated, FALSE) THEN "final_flush"
             ELSE "loop"
    /\ result' = NoResult
    /\ UNCHANGED <<error, config_vars, temp_file, writer, sink, close_calls,
                   builders_vars, total_objects, request, list_attempts, listed,
                   pages, history, upload_vars, object>>

----------------------------------------------------------------------------
(* After the loop: lines 259-291 *)

\* if key_builder.len() > 0 { write_batch(...)?; }
FinalFlushSkip ==
    /\ pc = "final_flush"
    /\ ~ (Len(key_builder) > 0)
    /\ pc' = "close"
    /\ UNCHANGED <<error, temp_file, sink, builders_vars, flush_frame>>

FinalFlushOk ==
    /\ pc = "final_flush"
    /\ Len(key_builder) > 0
    /\ WriteBatch(TRUE, "close")
    /\ UNCHANGED flush_frame

FinalFlushErr ==
    /\ pc = "final_flush"
    /\ Len(key_builder) > 0
    /\ WriteBatch(FALSE, "close")
    /\ UNCHANGED flush_frame

close_frame ==
    <<config_vars, sink, continuation_token, builders_vars, total_objects,
      request, list_attempts, result, listed, pages, history, upload_vars, object>>

\* Where a run goes after writer.close() returned Ok.
after_close_final_flush(t) == "final_flush"
\* A run that skips the upload when no batch was written.
after_close_skips_empty(t) ==
    IF t # "none" /\ sink # <<>> THEN "dest_client" ELSE "done"
after_close(t) == IF t # "none" THEN "dest_client" ELSE "done"

\* writer.close()?
CloseOk ==
    /\ pc = "close"
    /\ writer' = "closed"
    /\ close_calls' = close_calls + 1
    /\ pc' = after_close(temp_file)
    /\ UNCHANGED <<error, temp_file, close_frame>>

CloseErr ==
    /\ pc = "close"
    /\ writer' = "close_failed"
    /\ close_calls' = close_calls + 1
    /\ Fail("close")
    /\ UNCHANGED close_frame

upload_frame ==
    <<config_vars, writer, sink, close_calls, continuation_token, builders_vars,
      total_objects, request, list_attempts, result, listed, pages, history,
      object>>

\* let dest_s3_client = create_s3_client(...)?
DestClientOk ==
    /\ pc = "dest_client"
    /\ pc' = "read_temp"
    /\ UNCHANGED <<error, temp_file, upload_vars, upload_frame>>

DestClientErr ==
    /\ pc = "dest_client"
    /\ Fail("dest_client")
    /\ UNCHANGED <<upload_vars, upload_frame>>

----------------------------------------------------------------------------
(* upload_to_s3: lines 321-359 *)

\* file.read_to_end(&mut contents): everything the closed writer put in the file
read_to_end_short(file) == SubSeq(file, 1, Len(file) - 1)
read_to_end(file) == file

\* temp_file.reopen()? and file.read_to_end(&mut contents)?
ReadTempOk ==
    /\ pc = "read_temp"
    /\ contents' = Some(read_to_end(sink))
    /\ pc' = "put"
    /\ UNCHANGED <<error, temp_file, puts, last_put, upload_frame>>

ReadTempErr ==
    /\ pc = "read_temp"
    /\ Fail("read_temp")
    /\ UNCHANGED <<upload_vars, upload_frame>>

\* PutObjectRequest { bucket, key, body: Some(ByteStream::from(contents)) }
PutObjectRequest ==
    [bucket |-> output_bucket[1], key |-> output_key, body |-> contents]

\* One put_object request goes out.
SendPut ==
    /\ puts' = puts + 1
    /\ last_put' = Some(PutObjectRequest)

\* An attempt of put_object fails: retried while the strategy has a delay
\* left, otherwise `.await?` returns the error.
PutAttemptErr ==
    /\ pc = "put"
    /\ SendPut
    /\ IF is_some(strategy_next(puts))
       THEN UNCHANGED <<pc, error, temp_file>>
       ELSE Fail("upload")
    /\ UNCHANGED <<contents, upload_frame>>

\* An attempt of put_object succeeds; upload_to_s3 returns and drops the
\* temporary file; generate_manifest returns Ok(()).
PutAttemptOk ==
    /\ pc = "put"
    /\ SendPut
    /\ pc' = "done"
    /\ temp_file' = drop_temp_file(temp_file)
    /\ UNCHANGED <<error, contents, upload_frame>>

Next ==
    \/ StartOk \/ StartErr
    \/ BuildRequest \/ ListAttemptErr \/ ListAttemptOk
    \/ FlushSkip \/ FlushOk \/ FlushErr
    \/ Advance
    \/ FinalFlushSkip \/ FinalFlushOk \/ FinalFlushErr
    \/ CloseOk \/ CloseErr
    \/ DestClientOk \/ DestClientErr
    \/ ReadTempOk \/ ReadTempErr
    \/ PutAttemptErr \/ PutAttemptOk

Spec == Init /\ [][Next]_vars

----------------------------------------------------------------------------
(* The pipeline with a backend that may go on returning truncated pages,    *)
(* and in which every call returns and every step is eventually taken       *)

\* An attempt of list_objects_v2 succeeds with a page without contents, whose
\* truncation flag the backend sets as it likes.  pages and history stop
\* counting at MaxPages.
ListAttemptOkEmpty ==
    /\ pc = "list"
    /\ pc' = "flush"
    /\ list_attempts' = 0
    /\ pages' = IF pages < MaxPages THEN pages + 1 ELSE pages
    /\ history' = IF pages < MaxPages THEN Append(history, 0) ELSE history
    /\ \E trunc \in {None, Some(FALSE), Some(TRUE)},
          tok \in {None, Some(<<"token", pages'>>)} :
          result' = [next_continuation_token |-> tok, is_truncated |-> trunc]
    /\ UNCHANGED <<error, config_vars, temp_file, writer, sink, close_calls,
                   continuation_token, builders_vars, total_objects, request,
                   listed, upload_vars, object>>

NextLive == Next \/ ListAttemptOkEmpty

\* generate_manifest runs to its next await or return whenever it can, and
\* every call of the backend returns.
SpecLive == Init /\ [][NextLive]_vars /\ WF_vars(NextLive)

----------------------------------------------------------------------------
(* add_object_to_builders on its own: descriptors, delimiters and builders *)
(* drawn from the pools above                                              *)

InitNorm ==
    /\ pc = "norm"
    /\ error = None
    /\ bucket_name \in {MemoBucket, "logs"}
    /\ prefix = None
    /\ delimiter \in DelimiterPool
    /\ output_bucket = None
    /\ output_key = "manifest.parquet"
    /\ temp_file = "none"
    /\ writer = "none"
    /\ sink = <<>>
    /\ close_calls = 0
    /\ continuation_token = None
    /\ bucket_builder = <<>>
    /\ key_builder = <<>>
    /\ file_name_builder = <<>>
    /\ size_builder = <<>>
    /\ last_modified_builder = <<>>
    /\ total_objects = 0
    /\ request = None
    /\ list_attempts = 0
    /\ result = NoResult
    /\ listed = 0
    /\ pages = 0
    /\ history = <<>>
    /\ contents = None
    /\ puts = 0
    /\ last_put = None
    /\ object = None

\* add_object_to_builders(bucket_name, &object, delimiter, ...)?;
\* total_objects += 1;
Normalize ==
    /\ pc = "norm"
    /\ Len(key_builder) < MaxAppend
    /\ \E obj \in NormObjects :
          LET r == add_object_to_builders(bucket_name, obj, delimiter, Builders)
          IN  /\ object' = Some(obj)
              /\ SetBuilders(r.b)
              /\ IF r.ok
                 THEN /\ total_objects' = total_objects + 1
                      /\ UNCHANGED <<pc, error>>
                 ELSE /\ pc' = "failed"
                      /\ error' = Some("normalize")
                      /\ UNCHANGED total_objects
    /\ UNCHANGED <<config_vars, temp_file, writer, sink, close_calls,
                   continuation_token, request, list_attempts, result, listed,
                   pages, history, upload_vars>>

NextNorm == Normalize

SpecNorm == InitNorm /\ [][NextNorm]_vars

----------------------------------------------------------------------------
(* Properties *)

Last(q) == q[Len(q)]

\* All batches of the sink, column by column, in write order.
RECURSIVE ConcatAll(_, _)
ConcatAll(batches, k) ==
    IF k = 0 THEN EmptyBuilders
    ELSE Concat(ConcatAll(batches, k - 1), batches[k])

Written == ConcatAll(sink, Len(sink))

\* The key of a descriptor lies under the configured prefix.
UnderPrefix(obj) ==
    \/ prefix = None
    \/ LET k == unwrap_or(obj.key, <<>>)
           p == prefix[1]
       IN  Len(k) >= Len(p) /\ \A j \in 1..Len(p) : k[j] = p[j]

\* The keys written so far, in write order.
RECURSIVE KeysOfBatches(_)
KeysOfBatches(k) ==
    IF k = 0 THEN <<>> ELSE KeysOfBatches(k - 1) \o sink[k].key

\* The key of a descriptor lies under the prefix `p`.
UnderPrefixOf(p, obj) ==
    \/ p = None
    \/ LET k == unwrap_or(obj.key, <<>>)
       IN  Len(k) >= Len(p[1]) /\ \A j \in 1..Len(p[1]) : k[j] = p[1][j]

\* For each prefix of Init and each descriptor, whether the key lies under the
\* prefix, and the key of each descriptor: tables computed once.
PrefixPool == << None, Some(PipelinePrefix), Some(SparsePrefix) >>
UnderTable(p) ==
    SubSeq([i \in 1..(MaxPages * MaxKeysPerPage) |-> UnderPrefixOf(p, Obj(i))],
           1, MaxPages * MaxKeysPerPage)
UnderMemo ==
    << UnderTable(PrefixPool[1]), UnderTable(PrefixPool[2]),
       UnderTable(PrefixPool[3]) >>
UnderFlags == UnderMemo[CHOOSE j \in 1..Len(PrefixPool) : PrefixPool[j] = prefix]
KeyMemo ==
    SubSeq([i \in 1..(MaxPages * MaxKeysPerPage) |-> unwrap_or(Obj(i).key, <<>>)],
           1, MaxPages * MaxKeysPerPage)

\* The positions, in listing order, of the accepted descriptors returned so far.
AcceptedSoFar ==
    LET under == UnderFlags
    IN  SelectSeq([i \in 1..listed |-> i], LAMBDA i : under[i])

\* The rows of the accepted descriptors, in listing order.
ExpectedRows ==
    LET idx == AcceptedSoFar
        row(k) == add_object(bucket_name, idx[k], delimiter).b
    IN  [bucket        |-> [k \in 1..Len(idx) |-> row(k).bucket[1]],
         key           |-> [k \in 1..Len(idx) |-> row(k).key[1]],
         file_name     |-> [k \in 1..Len(idx) |-> row(k).file_name[1]],
         size          |-> [k \in 1..Len(idx) |-> row(k).size[1]],
         last_modified |-> [k \in 1..Len(idx) |-> row(k).last_modified[1]]]

CeilDiv(n, d) == (n + d - 1) \div d

\* C1: at successful completion the number of batches written is
\* ceil(N / 1000) for N accepted objects, and every batch but the last holds
\* exactly 1000 records.
C1_BatchCountAndSize ==
    pc = "done" =>
        /\ Len(sink) = CeilDiv(total_objects, 1000)
        /\ \A k \in 1..(Len(sink) - 1) : Len(sink[k].key) = 1000

\* C2: at successful completion the written batches, concatenated in write
\* order, are exactly the rows of the accepted objects in listing order, and
\* nothing is left in the builders.
C2_WrittenIsAcceptedInOrder ==
    pc = "done" =>
        /\ Written = ExpectedRows
        /\ Builders = EmptyBuilders

C2_Witness ==
    /\ pc = "done"
    /\ pages = 2
    /\ Len(sink) = 2
    /\ is_some(prefix)
    /\ total_objects < listed
    /\ Len(sink[2].key) < Len(sink[1].key)

\* C3: with a prefix configured, no key outside the prefix is in the builders
\* or in a written batch, and as long as no write has failed the keys written
\* and buffered are exactly the keys under the prefix that the pages returned.
C3_PrefixFilter ==
    is_some(prefix) =>
        LET keys == KeysOfBatches(Len(sink)) \o key_builder
            idx  == AcceptedSoFar
        IN  /\ \A k \in 1..Len(keys) : starts_with(keys[k], prefix[1])
            /\ error = None =>
                   keys = [k \in 1..Len(idx) |-> KeyMemo[idx[k]]]

C3_Witness ==
    /\ is_some(prefix)
    /\ Len(sink) >= 1
    /\ Len(key_builder) >= 1
    /\ total_objects < listed

\* C4: a listing or put call is attempted at most 3 times, so a call whose
\* first 3 attempts failed has ended the run and no fourth put goes out.
C4_AtMostThreeAttempts ==
    /\ list_attempts >= 3 => pc = "failed"
    /\ puts <= 3

\* C5: with a remote output, the run never ends (in success or in failure)
\* with the temporary file still on disk.
C5_TempFileRemoved ==
    /\ pc \in {"done", "failed"} => temp_file # "exists"
    /\ (pc = "done" /\ is_some(output_bucket)) => temp_file = "deleted"
    /\ (pc \notin {"start", "done", "failed"} /\ is_some(output_bucket)) =>
           temp_file = "exists"

C5_Witness ==
    /\ pc = "failed"
    /\ error = Some("upload")
    /\ temp_file = "deleted"

\* C6: an error ends the run in the Failed state; from there no listing
\* request, batch write, close or put request follows, and unless the error is
\* the upload's own, no put request was ever sent.
C6_FatalErrorsAreTerminal ==
    /\ [](error # None => pc = "failed")
    /\ []((pc = "failed" /\ error # Some("upload")) => (puts = 0 /\ last_put = None))
    /\ [][pc = "failed" =>
             UNCHANGED <<pc, request, list_attempts, pages, listed, sink,
                         close_calls, writer, puts, last_put>>]_vars

C6_Witness ==
    /\ pc = "failed"
    /\ error = Some("write")
    /\ is_some(output_bucket)
    /\ Len(sink) = 1
    /\ puts = 0

\* C7: the output mode never changes; with a local output no put request is
\* sent; with a remote output every put request is sent after the writer was
\* closed successfully, names the destination bucket and key, and carries all
\* written batches, the same on every attempt.
C7_UploadAfterClose ==
    /\ [](output_bucket = None => (puts = 0 /\ last_put = None /\ temp_file = "none"))
    /\ []((puts > 0) = is_some(last_put))
    /\ [](is_some(last_put) =>
             /\ writer = "closed"
             /\ last_put[1].bucket = output_bucket[1]
             /\ last_put[1].key = output_key
             /\ last_put[1].body = Some(sink))
    /\ [][/\ output_bucket' = output_bucket
          /\ output_key' = output_key
          /\ is_some(last_put) => last_put' = last_put]_vars

C7_Witness ==
    /\ pc = "done"
    /\ puts = 3
    /\ Len(sink) = 2
    /\ last_put[1].body = Some(sink)

\* C8: the writer is closed at most once, exactly once in a successful run,
\* only when no record is left in the builders, and no batch is written after
\* the close.
C8_ClosedOnceAfterLastWrite ==
    /\ [](close_calls <= 1)
    /\ [](pc = "done" => (close_calls = 1 /\ writer = "closed"))
    /\ [][/\ close_calls >= 1 => sink' = sink
          /\ close_calls' # close_calls =>
                 (close_calls' = close_calls + 1 /\ Builders = EmptyBuilders)]_vars

C8_Witness ==
    /\ pc = "done"
    /\ close_calls = 1
    /\ Len(sink) = 2
    /\ Len(sink[2].key) < 1000

\* The offsets (0-based) at which `pat` occurs in `s`.
Occurrences(s, pat) ==
    {p \in 0..(Len(s) - Len(pat)) :
        \A j \in 1..Len(pat) : s[p + j] = pat[j]}

\* C9: the file name recorded for a key is what follows the last occurrence
\* of the delimiter in the key, and the whole key when the delimiter does not
\* occur in it; "a/b/c.txt" gives "c.txt" and "readme.md" gives "readme.md"
\* with the delimiter "/".
C9_FileNameAfterLastDelimiter ==
    is_some(object) =>
        LET key == unwrap_or(object[1].key, <<>>)
            fn  == Last(file_name_builder)
            occ == Occurrences(key, delimiter)
            last == CHOOSE p \in occ : \A q \in occ : q <= p
        IN  /\ Last(key_builder) = key
            /\ occ = {} => fn = key
            /\ occ # {} =>
                   /\ Len(fn) = Len(key) - (last + Len(delimiter))
                   /\ \A j \in 1..Len(fn) : fn[j] = key[last + Len(delimiter) + j]
            /\ (key = KeyExample1 /\ delimiter = DelimSlash) =>
                   fn = <<"c", ".", "t", "x", "t">>
            /\ (key = KeyExample2 /\ delimiter = DelimSlash) => fn = KeyExample2

C9_Witness ==
    /\ is_some(object)
    /\ object[1].key = Some(KeyExample1)
    /\ delimiter = DelimSlash
    /\ Last(file_name_builder) = <<"c", ".", "t", "x", "t">>
    /\ Len(file_name_builder) = 2

\* C10: normalising a descriptor never fails and appends exactly one record:
\* its bucket is the bucket of the run, its size is the descriptor's size, or
\* 0 when there is none, and its last_modified is 0 when the timestamp is
\* absent or is not RFC3339.
C10_NormalizeNeverFails ==
    /\ pc = "norm"
    /\ error = None
    /\ Len(bucket_builder) = total_objects
    /\ Len(key_builder) = total_objects
    /\ Len(file_name_builder) = total_objects
    /\ Len(size_builder) = total_objects
    /\ Len(last_modified_builder) = total_objects
    /\ is_some(object) =>
           /\ Last(bucket_builder) = bucket_name
           /\ Last(size_builder) =
                  (IF object[1].size = None THEN 0 ELSE object[1].size[1])
           /\ object[1].last_modified = None => Last(last_modified_builder) = 0
           /\ (\E t \in MalformedTimestamps : object[1].last_modified = Some(t))
                  => Last(last_modified_builder) = 0

C10_Witness ==
    /\ is_some(object)
    /\ object[1].last_modified = Some(TsBadMonth)
    /\ Last(last_modified_builder) = 0
    /\ Len(last_modified_builder) = 2
    /\ last_modified_builder[1] # 0

\* The number of descriptors among Obj(lo) .. Obj(hi) that pass the prefix check.
AcceptedIn(lo, hi) ==
    LET under == UnderFlags
    IN  Cardinality({i \in lo..hi : under[i]})

\* The number of descriptors in the first k pages.
RECURSIVE SumTo(_, _)
SumTo(sizes, k) == IF k = 0 THEN 0 ELSE SumTo(sizes, k - 1) + sizes[k]

\* The manifest as a function of the configuration and of the pages alone:
\* the sizes of the batches written and the number of rows buffered once the
\* first k pages have been appended and flushed at the threshold.
RECURSIVE Replay(_, _)
Replay(sizes, k) ==
    IF k = 0 THEN [batches |-> <<>>, buffered |-> 0]
    ELSE LET before == Replay(sizes, k - 1)
             lo     == SumTo(sizes, k - 1)
             n      == before.buffered + AcceptedIn(lo + 1, lo + sizes[k])
         IN  IF n >= 1000
             THEN [batches |-> Append(before.batches, n), buffered |-> 0]
             ELSE [batches |-> before.batches, buffered |-> n]

AfterFinalFlush == pc \in {"close", "dest_client", "read_temp", "put", "done"}

\* C11: the manifest is determined by the configuration and the sequence of
\* successful pages, whatever attempts failed and were retried: as long as no
\* error has ended the run, the sizes of the batches written and the number of
\* rows buffered are those the pages received so far give, and when the loop
\* and the final flush are over (the writer is about to be closed) the batches
\* hold exactly the rows of the accepted descriptors of those pages, in
\* listing order, column by column.
C11_ManifestIsFunctionOfPages ==
    error = None =>
        LET k       == Len(history)
            settled == IF pc = "flush" THEN k - 1 ELSE k
            r       == Replay(history, settled)
            lens    == [j \in 1..Len(sink) |-> Len(sink[j].key)]
        IN  /\ k = pages
            /\ listed = SumTo(history, k)
            /\ (~ AfterFinalFlush /\ pc # "flush") =>
                   (lens = r.batches /\ Len(key_builder) = r.buffered)
            /\ pc = "flush" =>
                   /\ lens = r.batches
                   /\ Len(key_builder) =
                          r.buffered + AcceptedIn(listed - history[k] + 1, listed)
            /\ AfterFinalFlush =>
                   /\ lens = r.batches \o
                             (IF r.buffered > 0 THEN <<r.buffered>> ELSE <<>>)
                   /\ Builders = EmptyBuilders
            /\ pc = "close" => Written = ExpectedRows

C11_Witness ==
    /\ pc = "done"
    /\ history = <<1000, 999>>
    /\ prefix = None
    /\ Len(sink) = 2
    /\ Len(sink[2].key) = 999

\* The five columns of `b` have the same length.
SameLength(b) ==
    /\ Len(b.bucket) = Len(b.key)
    /\ Len(b.file_name) = Len(b.key)
    /\ Len(b.size) = Len(b.key)
    /\ Len(b.last_modified) = Len(b.key)

\* C12: in every state of a run (after the appends of a page, after a flush,
\* while a listing request is out) the five builders have the same length,
\* and so have the five columns of every batch written.
C12_ColumnsSameLength ==
    /\ SameLength(Builders)
    /\ \A j \in 1..Len(sink) : SameLength(sink[j])

C12_Witness ==
    /\ pc = "list"
    /\ pages = 1
    /\ Len(bucket_builder) = 999
    /\ Len(last_modified_builder) = 999
    /\ list_attempts = 1

\* C13: the first listing request carries no continuation token; the token
\* changes only at the end of an iteration, when it becomes the
\* next-continuation token of the page just received, and the next request
\* carries it; every attempt of a page request, the first and the retries,
\* carries the same bucket, prefix, token and max_keys = 1000.
C13_TokenChain ==
    /\ [](pc = "list" =>
             /\ request = Some([bucket |-> bucket_name, prefix |-> prefix,
                                continuation_token |-> continuation_token,
                                max_keys |-> Some(1000)])
             /\ pages = 0 => request[1].continuation_token = None
             /\ pages > 0 =>
                    request[1].continuation_token \in {None, Some(<<"token", pages>>)})
    /\ [](pc \in {"flush", "advance"} =>
             result.next_continuation_token \in {None, Some(<<"token", pages>>)})
    /\ [][/\ pc = "advance" => continuation_token' = result.next_continuation_token
          /\ pc # "advance" => continuation_token' = continuation_token
          /\ pc = "flush" => result' = result
          /\ (pc = "list" /\ pc' = "list") =>
                 (request' = request /\ list_attempts' = list_attempts + 1)
          /\ (pc = "loop" /\ pc' = "list") => list_attempts' = 0]_vars

C13_Witness ==
    /\ pc = "list"
    /\ pages = 1
    /\ list_attempts = 2
    /\ request[1].continuation_token = Some(<<"token", 1>>)
    /\ request[1].max_keys = Some(1000)

LoopIsOver == pc \in {"final_flush", "close", "dest_client", "read_temp", "put",
                      "done", "failed"}

\* A page whose truncation flag is set has been received.
TruncatedPage == pc = "advance" /\ unwrap_or(result.is_truncated, FALSE)

\* After a successful page whose truncation flag is false or absent, the loop
\* is left and no listing request is issued any more.
C14_NoRequestAfterLastPage ==
    [][/\ (pc = "advance" /\ ~ unwrap_or(result.is_truncated, FALSE)) =>
              pc' = "final_flush"
       /\ LoopIsOver =>
              (LoopIsOver' /\ request' = request /\ list_attempts' = list_attempts)]_vars

\* C14 as stated: no listing request follows a page that is not truncated,
\* and when every call returns the run eventually reaches Done or Failed,
\* whatever the backend answers.
C14_AlwaysTerminates ==
    /\ C14_NoRequestAfterLastPage
    /\ <>(pc \in {"done", "failed"})

\* C14 as amended: no listing request follows a page that is not truncated,
\* and when every call returns the run eventually reaches Done or Failed
\* unless the backend goes on returning truncated pages for ever.
C14_TerminatesUnlessTruncatedForever ==
    /\ C14_NoRequestAfterLastPage
    /\ ([]<>TruncatedPage) \/ <>(pc \in {"done", "failed"})

C14_Witness ==
    /\ pc = "done"
    /\ pages = MaxPages
    /\ history[1] = 0
    /\ continuation_token = None
    /\ close_calls = 1

\* C15: a listing request is in flight only at the listing step, one at a
\* time: a new request is issued only from the head of the loop, with the
\* previous page consumed, and a new attempt only after the previous attempt
\* failed; whenever a request is issued or in flight the builders hold fewer
\* than 1000 records, and while the flush is decided and done no request is
\* issued.
C15_ListingAndFlushingSequential ==
    /\ [](pc = "list" =>
             /\ Len(key_builder) < 1000
             /\ is_some(request)
             /\ result = NoResult)
    /\ [](pc = "loop" => Len(key_builder) < 1000)
    /\ [][/\ (pc' = "list" /\ pc # "list") =>
                 (pc = "loop" /\ list_attempts' = 0 /\ Len(key_builder') < 1000)
          /\ (pc' = "list" /\ pc = "list") =>
                 (list_attempts' = list_attempts + 1 /\ Builders' = Builders)
          /\ pc = "flush" =>
                 /\ pc' \in {"advance", "failed"}
                 /\ request' = request
                 /\ list_attempts' = list_attempts
                 /\ (Len(key_builder) >= 1000 /\ pc' = "advance") =>
                        (sink' = Append(sink, Builders) /\ key_builder' = <<>>)]_vars

C15_Witness ==
    /\ pc = "list"
    /\ pages = 1
    /\ list_attempts = 0
    /\ Len(sink) = 1
    /\ key_builder = <<>>

\* C16: a step that writes a batch writes one batch, which is exactly the
\* non-empty content of the five builders before the step, and leaves all
\* five builders empty; no other step changes the batches written.
C16_WriteTakesAllAndClears ==
    [][sink' # sink =>
          /\ sink' = Append(sink, Builders)
          /\ Len(key_builder) > 0
          /\ Builders' = EmptyBuilders
          /\ pc \in {"flush", "final_flush"}]_vars

C16_Witness ==
    /\ pc = "advance"
    /\ Len(sink) = 1
    /\ Len(sink[1].key) = 1999
    /\ Len(sink[1].last_modified) = 1999
    /\ Builders = EmptyBuilders

\* C17: once the listing loop has ended after a page that is not truncated,
\* the continuation token held is None, whatever that page carried.
C17_TokenClearedAtLoopEnd ==
    (LoopIsOver /\ pc # "failed") => continuation_token = None

\* The number of rows in the first k batches written.
RECURSIVE RowsWritten(_)
RowsWritten(k) == IF k = 0 THEN 0 ELSE RowsWritten(k - 1) + Len(sink[k].key)

\* C18: in every state of a run the accepted-object counter counts no more
\* than the descriptors returned, and equals the rows written in batches plus
\* the rows in the builders.
C18_CounterIsWrittenPlusBuffered ==
    /\ total_objects <= listed
    /\ total_objects = RowsWritten(Len(sink)) + Len(key_builder)

\* C19: with pages of at most 1000 descriptors, the builders never hold more
\* than 1999 records: at most 999 are carried from one iteration to the next,
\* and a page adds at most 1000.
C19_BuffersBounded ==
    (\A j \in 1..Len(history) : history[j] <= 1000) =>
        /\ Len(key_builder) <= 1999
        /\ Len(bucket_builder) <= 1999
        /\ Len(file_name_builder) <= 1999
        /\ Len(size_builder) <= 1999
        /\ Len(last_modified_builder) <= 1999
        /\ pc \in {"loop", "list", "advance"} => Len(key_builder) <= 999

C19_Witness ==
    /\ pc = "flush"
    /\ history = <<999, 1000>>
    /\ Len(key_builder) = 1999
    /\ Len(size_builder) = 1999
    /\ sink = <<>>

\* C20: as long as no descriptor has been accepted nothing is buffered and no
\* batch is written, neither flush attempts a write (so none can fail), and a
\* run that ends in Done without an accepted descriptor has closed the writer
\* exactly once and, with a remote output, has sent the manifest without
\* batches to the destination bucket and key.
C20_EmptyListingStillCompletes ==
    /\ [](total_objects = 0 => (sink = <<>> /\ Builders = EmptyBuilders))
    /\ []((pc = "done" /\ total_objects = 0) =>
             /\ close_calls = 1
             /\ writer = "closed"
             /\ output_bucket = None => puts = 0
             /\ is_some(output_bucket) =>
                    /\ puts >= 1
                    /\ last_put = Some([bucket |-> output_bucket[1],
                                        key |-> output_key, body |-> Some(<<>>)]))
    /\ [][/\ (total_objects' = 0 /\ pc = "flush") => pc' = "advance"
          /\ (total_objects' = 0 /\ pc = "final_flush") => pc' = "close"
          /\ (total_objects' = 0 /\ pc = "close" /\ pc' # "failed") =>
                 pc' = (IF is_some(output_bucket) THEN "dest_client" ELSE "done")]_vars

C20_Witness ==
    /\ pc = "done"
    /\ prefix = Some(SparsePrefix)
    /\ listed = 1000
    /\ total_objects = 0
    /\ close_calls = 1
    /\ is_some(output_bucket)
    /\ last_put[1].body = Some(<<>>)

====
